---- MODULE Spec2Model ----
(***************************************************************************)
(* The Value abstraction of ajson (src/value.rs): a six-variant tagged     *)
(* JSON value whose accessors either answer directly or forward to the     *)
(* Getter (scanner) and Number collaborators.                              *)
(*                                                                         *)
(* Text (Rust String / &str) is a sequence of one-character strings;       *)
(* bytes (&[u8]) are sequences of byte codes.  f64 results are exact       *)
(* decimals <<m, e>> standing for m * 10^(-e), normalised so that equal    *)
(* numbers have equal representations.                                     *)
(***************************************************************************)
EXTENDS Integers, Sequences, FiniteSets, TLC

\* Longest text of the exhaustively enumerated payloads.
MaxLen == 2

(***************************************************************************)
(* The caller's session with one Value                                     *)
(***************************************************************************)
VARIABLES
    v,      \* the Value the caller holds
    v0,     \* the same Value as it was when the caller obtained it
    op,     \* the method called last
    arg,    \* its argument
    ret,    \* what it returned
    calls,  \* the Getter calls it made
    memo    \* the first path looked up on v and what that lookup returned

vars == <<v, v0, op, arg, ret, calls, memo>>

(***************************************************************************)
(* Characters and bytes                                                    *)
(***************************************************************************)
Digits == {"0", "1", "2", "3"}

Chars ==
    Digits \cup {"\"", ",", "-", ".", ":", "[", "]", "{", "}",
                 "a", "b", "e", "f", "l", "n", "r", "s", "t", "u"}

\* The UTF-8 encoding of a character (all characters modelled are ASCII).
Ord(c) ==
    CASE c = "\"" -> 34 [] c = "," -> 44 [] c = "-" -> 45 [] c = "." -> 46
      [] c = "0" -> 48 [] c = "1" -> 49 [] c = "2" -> 50 [] c = "3" -> 51
      [] c = ":" -> 58 [] c = "[" -> 91 [] c = "]" -> 93
      [] c = "a" -> 97 [] c = "b" -> 98 [] c = "e" -> 101 [] c = "f" -> 102
      [] c = "l" -> 108 [] c = "n" -> 110 [] c = "r" -> 114 [] c = "s" -> 115
      [] c = "t" -> 116 [] c = "u" -> 117 [] c = "{" -> 123 [] c = "}" -> 125

Chr(b) == CHOOSE c \in Chars : Ord(c) = b

\* str::as_bytes
as_bytes(s) == [i \in 1..Len(s) |-> Ord(s[i])]

\* the owned text a byte slice decodes to
from_utf8(bs) == [i \in 1..Len(bs) |-> Chr(bs[i])]

DigitBytes == {Ord(d) : d \in Digits}

(***************************************************************************)
(* Number: the numeric-literal collaborator                                *)
(***************************************************************************)
RECURSIVE NormF(_, _)
\* the canonical representation of m * 10^(-e)
NormF(m, e) ==
    IF m = 0 THEN <<0, 0>>
    ELSE IF e > 0 /\ m % 10 = 0 THEN NormF(m \div 10, e - 1)
    ELSE <<m, e>>

F(n) == NormF(n, 0)

RECURSIVE DigitsValue(_)
\* the value of a run of digit bytes
DigitsValue(bs) ==
    IF bs = << >> THEN 0
    ELSE 10 * DigitsValue(SubSeq(bs, 1, Len(bs) - 1)) + (bs[Len(bs)] - 48)

AllDigits(bs) == \A i \in 1..Len(bs) : bs[i] \in DigitBytes

\* Splits a literal into sign, integer digits and fraction digits.
\* ok is FALSE when the text is not numeric.
ParseDecimal(bs) ==
    LET neg  == Len(bs) > 0 /\ bs[1] = 45
        body == IF neg THEN Tail(bs) ELSE bs
        dots == {i \in 1..Len(body) : body[i] = 46}
        dot  == IF dots = {} THEN Len(body) + 1
                ELSE CHOOSE i \in dots : \A j \in dots : i <= j
        ip   == SubSeq(body, 1, dot - 1)
        fp   == SubSeq(body, dot + 1, Len(body))
    IN  [ok   |-> /\ Cardinality(dots) <= 1
                  /\ AllDigits(ip) /\ AllDigits(fp)
                  /\ Len(ip) + Len(fp) > 0,
         neg  |-> neg, ip |-> ip, fp |-> fp]

Number_from(bs) ==
    [kind |-> IF \E i \in 1..Len(bs) : bs[i] \in {46, 101}
                  THEN "F64"
              ELSE IF \E i \in 1..Len(bs) : bs[i] = 45
                  THEN "I64"
              ELSE "U64",
     s    |-> from_utf8(bs)]

Number_as_str(n) == n.s

Number_to_f64(n) ==
    LET p == ParseDecimal(as_bytes(n.s))
    IN  IF ~p.ok THEN F(0)
        ELSE LET m == DigitsValue(p.ip \o p.fp)
             IN  NormF(IF p.neg THEN -m ELSE m, Len(p.fp))

Number_to_i64(n) ==
    LET p == ParseDecimal(as_bytes(n.s))
    IN  IF ~p.ok THEN 0
        ELSE IF p.neg THEN -DigitsValue(p.ip) ELSE DigitsValue(p.ip)

Number_to_u64(n) ==
    LET p == ParseDecimal(as_bytes(n.s))
    IN  IF ~p.ok \/ p.neg THEN 0 ELSE DigitsValue(p.ip)

(***************************************************************************)
(* Value: the six variants                                                 *)
(***************************************************************************)
VString(s)  == [tag |-> "String", s |-> s]
VNumber(n)  == [tag |-> "Number", n |-> n]
VObject(s)  == [tag |-> "Object", s |-> s]
VArray(s)   == [tag |-> "Array", s |-> s]
VBoolean(b) == [tag |-> "Boolean", b |-> b]
VNull       == [tag |-> "Null"]

None    == [some |-> FALSE]
Some(x) == [some |-> TRUE, val |-> x]

(***************************************************************************)
(* Getter: the scanner collaborator                                        *)
(***************************************************************************)
\* Whether text s carries the characters of lit from position i on.
HasLit(s, i, lit) ==
    /\ i + Len(lit) - 1 <= Len(s)
    /\ SubSeq(s, i, i + Len(lit) - 1) = lit

RECURSIVE SkipString(_, _)
\* i is just past an opening quote; the position past the closing quote, or 0.
SkipString(s, i) ==
    IF i > Len(s) THEN 0
    ELSE IF s[i] = "\"" THEN i + 1
    ELSE SkipString(s, i + 1)

RECURSIVE SkipDigits(_, _)
SkipDigits(s, i) ==
    IF i <= Len(s) /\ s[i] \in Digits THEN SkipDigits(s, i + 1) ELSE i

\* A JSON number literal at i: -? digits (. digits)?
SkipNumber(s, i) ==
    LET a == IF i <= Len(s) /\ s[i] = "-" THEN i + 1 ELSE i
        b == SkipDigits(s, a)
    IN  IF b = a THEN 0
        ELSE IF b <= Len(s) /\ s[b] = "."
            THEN LET c == SkipDigits(s, b + 1) IN IF c = b + 1 THEN 0 ELSE c
        ELSE b

RECURSIVE SkipValue(_, _), SkipElems(_, _), SkipMembers(_, _)
\* The position just past the JSON value that starts at i, or 0 when there
\* is no complete value there.
SkipValue(s, i) ==
    IF i > Len(s) THEN 0
    ELSE CASE s[i] = "[" ->
                IF i + 1 <= Len(s) /\ s[i + 1] = "]" THEN i + 2
                ELSE SkipElems(s, i + 1)
           [] s[i] = "{" ->
                IF i + 1 <= Len(s) /\ s[i + 1] = "}" THEN i + 2
                ELSE SkipMembers(s, i + 1)
           [] s[i] = "\"" -> SkipString(s, i + 1)
           [] s[i] = "t" -> IF HasLit(s, i, <<"t", "r", "u", "e">>) THEN i + 4 ELSE 0
           [] s[i] = "f" -> IF HasLit(s, i, <<"f", "a", "l", "s", "e">>) THEN i + 5 ELSE 0
           [] s[i] = "n" -> IF HasLit(s, i, <<"n", "u", "l", "l">>) THEN i + 4 ELSE 0
           [] OTHER -> SkipNumber(s, i)

SkipElems(s, i) ==
    LET j == SkipValue(s, i)
    IN  IF j = 0 \/ j > Len(s) THEN 0
        ELSE IF s[j] = "," THEN SkipElems(s, j + 1)
        ELSE IF s[j] = "]" THEN j + 1
        ELSE 0

SkipMembers(s, i) ==
    IF i > Len(s) \/ s[i] # "\"" THEN 0
    ELSE LET k == SkipString(s, i + 1)
         IN  IF k = 0 \/ k > Len(s) \/ s[k] # ":" THEN 0
             ELSE LET j == SkipValue(s, k + 1)
                  IN  IF j = 0 \/ j > Len(s) THEN 0
                      ELSE IF s[j] = "," THEN SkipMembers(s, j + 1)
                      ELSE IF s[j] = "}" THEN j + 1
                      ELSE 0

\* The freshly tagged Value for the token s[i .. j-1].
Decode(s, i, j) ==
    CASE s[i] = "\"" -> VString(SubSeq(s, i + 1, j - 2))
      [] s[i] = "{" -> VObject(SubSeq(s, i, j - 1))
      [] s[i] = "[" -> VArray(SubSeq(s, i, j - 1))
      [] s[i] = "t" -> VBoolean(TRUE)
      [] s[i] = "f" -> VBoolean(FALSE)
      [] s[i] = "n" -> VNull
      [] OTHER -> VNumber(Number_from(as_bytes(SubSeq(s, i, j - 1))))

Getter_from_str(s) == [src |-> s]

RECURSIVE ScanElems(_, _)
\* The elements from position i on, in source order, up to the first
\* position where no complete element follows.
ScanElems(s, i) ==
    LET j == SkipValue(s, i)
    IN  IF j = 0 THEN << >>
        ELSE <<Decode(s, i, j)>> \o
             (IF j <= Len(s) /\ s[j] = "," THEN ScanElems(s, j + 1) ELSE << >>)

RECURSIVE ScanMembers(_, _)
\* The <<key, value>> members from position i on, in source order.
ScanMembers(s, i) ==
    IF i > Len(s) \/ s[i] # "\"" THEN << >>
    ELSE LET k == SkipString(s, i + 1)
         IN  IF k = 0 \/ k > Len(s) \/ s[k] # ":" THEN << >>
             ELSE LET j == SkipValue(s, k + 1)
                  IN  IF j = 0 THEN << >>
                      ELSE <<<<SubSeq(s, i + 1, k - 2), Decode(s, k + 1, j)>>>> \o
                           (IF j <= Len(s) /\ s[j] = ","
                               THEN ScanMembers(s, j + 1) ELSE << >>)

Getter_to_vec(g) ==
    IF Len(g.src) > 0 /\ g.src[1] = "[" THEN ScanElems(g.src, 2) ELSE << >>

\* The mapping is the set of its <<key, value>> entries, one per key; a key
\* given twice keeps its last value.
Getter_to_object(g) ==
    LET ms == IF Len(g.src) > 0 /\ g.src[1] = "{"
                 THEN ScanMembers(g.src, 2) ELSE << >>
    IN  {ms[i] : i \in {i \in 1..Len(ms) :
                           \A j \in 1..Len(ms) : ms[j][1] = ms[i][1] => j <= i}}

RECURSIVE SplitPath(_)
\* The components of a path, separated by '.'.
SplitPath(bs) ==
    LET dots == {i \in 1..Len(bs) : bs[i] = 46}
    IN  IF dots = {} THEN <<bs>>
        ELSE LET d == CHOOSE i \in dots : \A j \in dots : i <= j
             IN  <<SubSeq(bs, 1, d - 1)>> \o SplitPath(SubSeq(bs, d + 1, Len(bs)))

RECURSIVE Navigate(_, _)
Navigate(val, comps) ==
    IF comps = << >> THEN Some(val)
    ELSE LET c == Head(comps) IN
      CASE val.tag = "Array" ->
             LET es == Getter_to_vec(Getter_from_str(val.s))
                 ix == DigitsValue(c)
             IN  IF c # << >> /\ AllDigits(c) /\ ix < Len(es)
                     THEN Navigate(es[ix + 1], Tail(comps))
                 ELSE None
        [] val.tag = "Object" ->
             LET ms   == IF Len(val.s) > 0 /\ val.s[1] = "{"
                            THEN ScanMembers(val.s, 2) ELSE << >>
                 hits == {i \in 1..Len(ms) : as_bytes(ms[i][1]) = c}
             IN  IF hits = {} THEN None
                 ELSE Navigate(ms[CHOOSE i \in hits : \A j \in hits : i <= j][2],
                               Tail(comps))
        [] OTHER -> None

Getter_get_by_utf8(g, path) ==
    IF path = << >> \/ g.src = << >> THEN None
    ELSE IF g.src[1] = "[" THEN Navigate(VArray(g.src), SplitPath(path))
    ELSE IF g.src[1] = "{" THEN Navigate(VObject(g.src), SplitPath(path))
    ELSE None

(***************************************************************************)
(* Value: formatting, lookup, predicates, conversions, equality            *)
(***************************************************************************)
Value_as_str(self) ==
    CASE self.tag = "String" -> self.s
      [] self.tag = "Number" -> Number_as_str(self.n)
      [] self.tag = "Boolean" /\ self.b -> <<"t", "r", "u", "e">>
      [] self.tag = "Boolean" /\ ~self.b -> <<"f", "a", "l", "s", "e">>
      [] self.tag = "Object" -> self.s
      [] self.tag = "Array" -> self.s
      [] self.tag = "Null" -> <<"n", "u", "l", "l">>

\* Debug that forgets the quotes of the String variant.
fmt_Debug_Unquoted(self) == Value_as_str(self)

fmt_Debug(self) ==
    IF self.tag = "String"
        THEN <<"\"">> \o Value_as_str(self) \o <<"\"">>
    ELSE Value_as_str(self)

fmt_Display(self) == Value_as_str(self)

\* A method that may consult the Getter answers with its return value and
\* the Getter calls it made: the Getter built, the operation and its argument.
GetterCall(g, method, a) == [getter |-> g, op |-> method, arg |-> a]

\* A lookup that scans the text of a String as if it were a composite span.
Value_get_by_utf8_ScanAnyText(self, bs) ==
    IF self.tag \in {"Array", "Object", "String"}
        THEN LET g == Getter_from_str(self.s)
             IN  [ret   |-> Getter_get_by_utf8(g, bs),
                  calls |-> <<GetterCall(g, "get_by_utf8", bs)>>]
    ELSE [ret |-> None, calls |-> << >>]

Value_get_by_utf8(self, bs) ==
    IF self.tag \in {"Array", "Object"}
        THEN LET g == Getter_from_str(self.s)
             IN  [ret   |-> Getter_get_by_utf8(g, bs),
                  calls |-> <<GetterCall(g, "get_by_utf8", bs)>>]
    ELSE [ret |-> None, calls |-> << >>]

\* A lookup that answers from the first lookup's result instead of scanning.
Value_get_Cached(self, path) ==
    IF memo.some THEN [ret |-> memo.val.ret, calls |-> << >>]
    ELSE Value_get_by_utf8(self, as_bytes(path))

Value_get(self, path) == Value_get_by_utf8(self, as_bytes(path))

is_string(self) == self.tag = "String"
is_number(self) == self.tag = "Number"
is_array(self)  == self.tag = "Array"
is_object(self) == self.tag = "Object"
is_bool(self)   == self.tag = "Boolean"
is_null(self)   == self.tag = "Null"

Value_to_f64(self) ==
    CASE self.tag = "Number" -> Number_to_f64(self.n)
      [] self.tag = "Boolean" /\ self.b -> F(1)
      [] self.tag = "String" -> Number_to_f64(Number_from(as_bytes(self.s)))
      [] OTHER -> F(0)

\* A conversion that parses the stored text of a composite like a String's.
Value_to_u64_ParseSpan(self) ==
    CASE self.tag = "Number" -> Number_to_u64(self.n)
      [] self.tag = "Boolean" /\ self.b -> 1
      [] self.tag \in {"String", "Object", "Array"} ->
             Number_to_u64(Number_from(as_bytes(self.s)))
      [] OTHER -> 0

Value_to_u64(self) ==
    CASE self.tag = "Number" -> Number_to_u64(self.n)
      [] self.tag = "Boolean" /\ self.b -> 1
      [] self.tag = "String" -> Number_to_u64(Number_from(as_bytes(self.s)))
      [] OTHER -> 0

\* A conversion that treats a String as a mismatched variant.
Value_to_i64_StringDefault(self) ==
    CASE self.tag = "Number" -> Number_to_i64(self.n)
      [] self.tag = "Boolean" /\ self.b -> 1
      [] OTHER -> 0

Value_to_i64(self) ==
    CASE self.tag = "Number" -> Number_to_i64(self.n)
      [] self.tag = "Boolean" /\ self.b -> 1
      [] self.tag = "String" -> Number_to_i64(Number_from(as_bytes(self.s)))
      [] OTHER -> 0

\* A conversion that reads the text "true" as true.
Value_to_bool_Truthy(self) ==
    CASE self.tag = "Boolean" -> self.b
      [] self.tag = "String" -> self.s = <<"t", "r", "u", "e">>
      [] OTHER -> FALSE

Value_to_bool(self) ==
    CASE self.tag = "Boolean" -> self.b
      [] OTHER -> FALSE

\* A conversion that hands an Object's span to the Getter like an Array's.
Value_to_vec_ScanObject(self) ==
    CASE self.tag \in {"Array", "Object"} ->
             LET g == Getter_from_str(self.s)
             IN  [ret   |-> Getter_to_vec(g),
                  calls |-> <<GetterCall(g, "to_vec", << >>)>>]
      [] self.tag = "Null" -> [ret |-> << >>, calls |-> << >>]
      [] OTHER -> [ret |-> <<self>>, calls |-> << >>]

Value_to_vec(self) ==
    CASE self.tag = "Array" ->
             LET g == Getter_from_str(self.s)
             IN  [ret   |-> Getter_to_vec(g),
                  calls |-> <<GetterCall(g, "to_vec", << >>)>>]
      [] self.tag = "Null" -> [ret |-> << >>, calls |-> << >>]
      [] OTHER -> [ret |-> <<self>>, calls |-> << >>]

\* A conversion that hands an Array's span to the Getter like an Object's.
Value_to_object_ScanArray(self) ==
    CASE self.tag \in {"Object", "Array"} ->
             LET g == Getter_from_str(self.s)
             IN  [ret   |-> Getter_to_object(g),
                  calls |-> <<GetterCall(g, "to_object", << >>)>>]
      [] OTHER -> [ret |-> {}, calls |-> << >>]

Value_to_object(self) ==
    CASE self.tag = "Object" ->
             LET g == Getter_from_str(self.s)
             IN  [ret   |-> Getter_to_object(g),
                  calls |-> <<GetterCall(g, "to_object", << >>)>>]
      [] OTHER -> [ret |-> {}, calls |-> << >>]

\* An equality that only a String can satisfy.
eq_str_StringOnly(self, other) == self.tag = "String" /\ self.s = other

\* impl PartialEq<&str> for Value
eq_str(self, other) == Value_as_str(self) = other

\* impl PartialEq<f64> for Value
eq_f64(self, other) == Value_to_f64(self) = other

(***************************************************************************)
(* Inputs                                                                  *)
(***************************************************************************)
ShortAlphabet == {"1", "-", ".", "[", "]"}

RECURSIVE SeqsUpTo(_, _)
SeqsUpTo(A, n) ==
    IF n = 0 THEN {<< >>}
    ELSE LET S == SeqsUpTo(A, n - 1)
         IN  S \cup {Append(s, a) : s \in {t \in S : Len(t) = n - 1}, a \in A}

ShortTexts == SeqsUpTo(ShortAlphabet, MaxLen)

DocArray   == <<"[", "1", ",", "2", ",", "3", "]">>
DocDup     == <<"[", "3", ",", "3", ",", "1", "]">>
DocObject  == <<"{", "\"", "a", "\"", ":", "\"", "b", "\"", "}">>
DocDupKey  == <<"{", "\"", "a", "\"", ":", "1", ",", "\"", "a", "\"", ":", "2", "}">>
DocNested  ==
    <<"{", "\"", "a", "\"", ":", "[", "t", "r", "u", "e", ",", "n", "u", "l", "l",
      ",", "f", "a", "l", "s", "e", "]", ",",
      "\"", "b", "\"", ":", "{", "\"", "a", "\"", ":", "-", "1", ".", "2", "}", "}">>
TextThree  == <<"3">>
TextTrue   == <<"t", "r", "u", "e">>
TextNull   == <<"n", "u", "l", "l">>
TextOpen   == <<"[", "1", ",", "2">>

Docs == {DocArray, DocDup, DocObject, DocDupKey, DocNested,
         TextThree, TextTrue, TextNull, TextOpen}

Texts == Docs \cup ShortTexts

\* The Values a caller can build through the public variants.
CallerValues ==
    {VString(t) : t \in Texts} \cup {VNumber(Number_from(as_bytes(t))) : t \in Texts}
        \cup {VObject(t) : t \in Texts} \cup {VArray(t) : t \in Texts}
        \cup {VBoolean(TRUE), VBoolean(FALSE), VNull}

Paths == {<< >>, <<"0">>, <<"a">>, <<"a", ".", "0">>, <<"b", ".", "a">>}

StrArgs == {TextThree, TextTrue, TextNull, <<"1">>, DocArray}

F64Args == {F(0), F(1), F(3)}

(***************************************************************************)
(* Operations                                                              *)
(***************************************************************************)
Init ==
    /\ v \in CallerValues
    /\ v0 = v
    /\ op = "new"
    /\ arg = << >>
    /\ ret = << >>
    /\ calls = << >>
    /\ memo = None

\* A method taking &self that consults no collaborator that is logged.
Pure(name, a, r) ==
    /\ op' = name
    /\ arg' = a
    /\ ret' = r
    /\ calls' = << >>
    /\ UNCHANGED <<v, v0, memo>>

\* Notes the first path looked up on v with its result, and whether that
\* path has been looked up again since.
Remember(bs, r) ==
    memo' = IF ~memo.some THEN Some([path |-> bs, ret |-> r, again |-> FALSE])
            ELSE IF memo.val.path = bs THEN Some([memo.val EXCEPT !.again = TRUE])
            ELSE memo

Get ==
    \E path \in Paths :
        LET r == Value_get(v, path)
        IN  /\ op' = "get"
            /\ arg' = path
            /\ ret' = r.ret
            /\ calls' = r.calls
            /\ Remember(as_bytes(path), r.ret)
            /\ UNCHANGED <<v, v0>>

GetByUtf8 ==
    \E path \in Paths :
        LET r == Value_get_by_utf8(v, as_bytes(path))
        IN  /\ op' = "get_by_utf8"
            /\ arg' = as_bytes(path)
            /\ ret' = r.ret
            /\ calls' = r.calls
            /\ Remember(as_bytes(path), r.ret)
            /\ UNCHANGED <<v, v0>>

IsString == Pure("is_string", << >>, is_string(v))
IsNumber == Pure("is_number", << >>, is_number(v))
IsArray  == Pure("is_array", << >>, is_array(v))
IsObject == Pure("is_object", << >>, is_object(v))
IsBool   == Pure("is_bool", << >>, is_bool(v))
IsNull   == Pure("is_null", << >>, is_null(v))

AsStr == Pure("as_str", << >>, Value_as_str(v))
ToF64 == Pure("to_f64", << >>, Value_to_f64(v))
ToU64 == Pure("to_u64", << >>, Value_to_u64(v))
ToI64 == Pure("to_i64", << >>, Value_to_i64(v))
ToBool == Pure("to_bool", << >>, Value_to_bool(v))

ToVec ==
    LET r == Value_to_vec(v)
    IN  /\ op' = "to_vec"
        /\ arg' = << >>
        /\ ret' = r.ret
        /\ calls' = r.calls
        /\ UNCHANGED <<v, v0, memo>>

ToObject ==
    LET r == Value_to_object(v)
    IN  /\ op' = "to_object"
        /\ arg' = << >>
        /\ ret' = r.ret
        /\ calls' = r.calls
        /\ UNCHANGED <<v, v0, memo>>

EqStr == \E s \in StrArgs : Pure("eq_str", s, eq_str(v, s))
EqF64 == \E x \in F64Args : Pure("eq_f64", x, eq_f64(v, x))

Debug == Pure("fmt_debug", << >>, fmt_Debug(v))
Display == Pure("fmt_display", << >>, fmt_Display(v))

\* The Values handed back by the last call.
Returned ==
    CASE op \in {"get", "get_by_utf8"} -> IF ret.some THEN {ret.val} ELSE {}
      [] op = "to_vec" -> {ret[i] : i \in 1..Len(ret)}
      [] op = "to_object" -> {e[2] : e \in ret}
      [] OTHER -> {}

\* The caller goes on with a Value a lookup or collection conversion returned.
Take ==
    \E x \in Returned :
        /\ v' = x
        /\ v0' = x
        /\ op' = "take"
        /\ arg' = << >>
        /\ ret' = << >>
        /\ calls' = << >>
        /\ memo' = None

Next ==
    \/ Get \/ GetByUtf8
    \/ IsString \/ IsNumber \/ IsArray \/ IsObject \/ IsBool \/ IsNull
    \/ AsStr \/ ToF64 \/ ToU64 \/ ToI64 \/ ToBool
    \/ ToVec \/ ToObject
    \/ EqStr \/ EqF64
    \/ Debug \/ Display
    \/ Take

Spec == Init /\ [][Next]_vars

(***************************************************************************)
(* Properties                                                              *)
(***************************************************************************)
ScalarTags == {"String", "Number", "Boolean", "Null"}

Num(text) == VNumber(Number_from(as_bytes(text)))

\* The path bytes of the lookup called last.
LookupBytes == IF op = "get" THEN as_bytes(arg) ELSE arg

\* C1: a lookup on a String, Number, Boolean or Null returns None for every
\* path, the empty one included, and builds no Getter.
C1_ScalarLookupIsNone ==
    (op \in {"get", "get_by_utf8"} /\ v.tag \in ScalarTags)
        => (ret = None /\ calls = << >>)

\* A String holding the text of a JSON array was asked for its element 0.
C1_Witness ==
    /\ op = "get"
    /\ v = VString(DocArray)
    /\ arg = <<"0">>
    /\ ret = None

\* C2: to_vec is empty for Null, the one-element sequence of the receiver
\* for String, Number, Boolean and Object, and for Array alone the Getter's
\* decoding of the stored span, in source order with duplicates kept.
C2_ToVecDispatch ==
    op = "to_vec" =>
        /\ v.tag = "Null" => (ret = << >> /\ calls = << >>)
        /\ v.tag \notin {"Null", "Array"} => (ret = <<v>> /\ calls = << >>)
        /\ v.tag = "Array" =>
              /\ calls = <<GetterCall(Getter_from_str(v.s), "to_vec", << >>)>>
              /\ ret = Getter_to_vec(Getter_from_str(v.s))
        /\ v = VArray(DocDup) => ret = <<Num(<<"3">>), Num(<<"3">>), Num(<<"1">>)>>

\* An Object receiver came back as the single element of the sequence.
C2_Witness ==
    /\ op = "to_vec"
    /\ v = VObject(DocObject)
    /\ ret = <<VObject(DocObject)>>

\* C3: to_object is the empty mapping for every receiver that is not an
\* Object, an Array included, and for Object the Getter's decoding of the span.
C3_ToObjectDispatch ==
    op = "to_object" =>
        /\ v.tag # "Object" => (ret = {} /\ calls = << >>)
        /\ v.tag = "Object" =>
              /\ calls = <<GetterCall(Getter_from_str(v.s), "to_object", << >>)>>
              /\ ret = Getter_to_object(Getter_from_str(v.s))

\* An Array receiver, even one whose text is an object literal, gave the
\* empty mapping.
C3_Witness ==
    /\ op = "to_object"
    /\ v = VArray(DocObject)
    /\ ret = {}

\* C4: to_bool is true exactly for Boolean(true).
C4_ToBoolOnlyTrue ==
    op = "to_bool" => (ret <=> v = VBoolean(TRUE))

\* The String "true" converted to false.
C4_Witness ==
    /\ op = "to_bool"
    /\ v = VString(TextTrue)
    /\ ret = FALSE

\* C5: on a receiver that is neither Number nor String, to_f64, to_u64 and
\* to_i64 give 1 for Boolean(true) and 0 for Boolean(false), Object, Array
\* (whatever the stored text) and Null.
C5_NonNumericDefaults ==
    v.tag \notin {"Number", "String"} =>
        /\ op = "to_f64" => ret = IF v = VBoolean(TRUE) THEN F(1) ELSE F(0)
        /\ op = "to_u64" => ret = IF v = VBoolean(TRUE) THEN 1 ELSE 0
        /\ op = "to_i64" => ret = IF v = VBoolean(TRUE) THEN 1 ELSE 0

\* An Array whose stored text reads as the number 3 converted to 0.
C5_Witness ==
    /\ op = "to_u64"
    /\ v = VArray(TextThree)
    /\ ret = 0

\* C6: a String converts to f64, u64 and i64 exactly as the Number built
\* from the bytes of its text does.
C6_StringConvertsAsNumber ==
    v.tag = "String" =>
        /\ op = "to_f64" => ret = Value_to_f64(Num(v.s))
        /\ op = "to_u64" => ret = Value_to_u64(Num(v.s))
        /\ op = "to_i64" => ret = Value_to_i64(Num(v.s))

\* The String "-1" converted to the integer -1.
C6_Witness ==
    /\ op = "to_i64"
    /\ v = VString(<<"-", "1">>)
    /\ ret = -1

\* C7: Value == &str holds iff as_str() is that string, so a Number, a
\* Boolean and Null equal the string spelling them; Value == f64 holds iff
\* to_f64() is that float, with to_f64's defaults for the other variants.
C7_CrossTypeEquality ==
    /\ op = "eq_str" =>
          /\ ret <=> (Value_as_str(v) = arg)
          /\ (v = Num(TextThree) /\ arg = TextThree) => ret
          /\ (v = VString(TextThree) /\ arg = TextThree) => ret
          /\ (v = VBoolean(TRUE) /\ arg = TextTrue) => ret
          /\ (v = VNull /\ arg = TextNull) => ret
    /\ op = "eq_f64" =>
          /\ ret <=> (Value_to_f64(v) = arg)
          /\ (v = Num(TextThree) /\ arg = F(3)) => ret
          /\ (v = VBoolean(TRUE) /\ arg = F(1)) => ret
          /\ ((v.tag \in {"Null", "Object", "Array"} \/ v = VBoolean(FALSE))
                 /\ arg = F(0)) => ret

\* The Number 3 compared equal to the string "3".
C7_Witness ==
    /\ op = "eq_str"
    /\ v = Num(TextThree)
    /\ arg = TextThree
    /\ ret = TRUE

\* C8: Display is as_str(); Debug is as_str() between two double quotes,
\* unescaped, for a String and as_str() itself otherwise; so the two
\* renderings differ exactly for a String.
C8_DebugAndDisplay ==
    /\ op = "fmt_display" => ret = Value_as_str(v)
    /\ op = "fmt_debug" =>
          /\ v.tag = "String" => ret = <<"\"">> \o Value_as_str(v) \o <<"\"">>
          /\ v.tag # "String" => ret = Value_as_str(v)
          /\ (ret # fmt_Display(v)) <=> (v.tag = "String")

\* A String whose text itself holds double quotes was rendered by Debug.
C8_Witness ==
    /\ op = "fmt_debug"
    /\ v = VString(DocObject)
    /\ ret = <<"\"">> \o DocObject \o <<"\"">>

\* Whether the text is one complete JSON literal opened by the given delimiter.
IsCompleteLiteral(text, open) ==
    /\ Len(text) > 0
    /\ text[1] = open
    /\ SkipValue(text, 1) = Len(text) + 1

\* C9: every Object holds a complete object literal and every Array a
\* complete array literal, whether built by the caller or returned by get,
\* to_vec or to_object.
C9_CompositeTextComplete ==
    /\ v.tag = "Object" => IsCompleteLiteral(v.s, "{")
    /\ v.tag = "Array" => IsCompleteLiteral(v.s, "[")

\* C10: no call changes the receiver; a lookup of a path already looked up
\* returns what it returned the first time, whatever was called in between;
\* and each lookup on an Object or Array builds its own Getter over the
\* stored span and hands it the path bytes as given.
C10_ImmutableAndStateless ==
    /\ v = v0
    /\ op \in {"get", "get_by_utf8"} =>
          /\ (memo.some /\ memo.val.path = LookupBytes) => ret = memo.val.ret
          /\ v.tag \in {"Object", "Array"} =>
                calls = <<GetterCall(Getter_from_str(v.s), "get_by_utf8",
                                     LookupBytes)>>

\* The path looked up first on an Array was looked up again through get,
\* after a lookup of another path, and found the same element.
C10_Witness ==
    /\ op = "get"
    /\ v = VArray(DocArray)
    /\ arg = <<"0">>
    /\ memo.some /\ memo.val.again /\ memo.val.path = as_bytes(<<"0">>)
    /\ ret = Some(Num(<<"1">>))
====
